---------------------------- MODULE Spec2Model ----------------------------
(***************************************************************************)
(* term-launcher: the secure command resolution engine (src/launcher.rs),  *)
(* the launch sequence that uses it (launch_app in src/main.rs) and the    *)
(* menu loop with its add, edit and delete handlers (run_app).             *)
(*                                                                         *)
(* A string is a sequence of lexemes: a lexeme is a separator ("/", ":",   *)
(* " ") or a word without separators ("usr", "ls", "..").  Paths are       *)
(* parsed from strings the way std::path does it, the file system is a map *)
(* from locations to nodes, and canonicalize / metadata walk it following  *)
(* symbolic links.                                                         *)
(***************************************************************************)
EXTENDS Naturals, Sequences, FiniteSets, TLC

VARIABLES fs, home_env, path_env, fsOps, res, pc, app, calls, resolved_path,
          final_args, spawned, refused,
          apps, selected, raw_mode, alt_screen, config_file, msg, input

vars == <<fs, home_env, path_env, fsOps, res, pc, app, calls, resolved_path,
          final_args, spawned, refused,
          apps, selected, raw_mode, alt_screen, config_file, msg, input>>

\* the terminal as TerminalGuard and the handlers switch it
termVars == <<raw_mode, alt_screen>>
\* config.apps, the cursor, the config file on disk, and what the user sees
\* and types
menuVars == <<apps, selected, config_file, msg, input>>

(***************************************************************************)
(* Bounds                                                                  *)
(***************************************************************************)
\* number of file-system changes made by the outside world in one behaviour
MaxFsOps == 2
\* number of symbolic links one path resolution may follow (ELOOP beyond it)
MaxLinkDepth == 3

(***************************************************************************)
(* Strings and std::path                                                   *)
(***************************************************************************)
Slash == "/"
Colon == ":"
Space == " "
DotDot == <<"..">>

\* str::split(sep): the pieces between separators, empty pieces included
RECURSIVE SplitOn(_, _)
SplitOn(s, d) ==
    IF \A i \in 1..Len(s) : s[i] # d
    THEN <<s>>
    ELSE LET k == CHOOSE i \in 1..Len(s) :
                     s[i] = d /\ \A j \in 1..(i - 1) : s[j] # d
         IN  <<SubSeq(s, 1, k - 1)>> \o SplitOn(SubSeq(s, k + 1, Len(s)), d)

NonEmptyPieces(ps) == SelectSeq(ps, LAMBDA p : p # <<>>)

\* str::split_whitespace(): the maximal runs without whitespace
split_whitespace(s) == NonEmptyPieces(SplitOn(s, Space))

\* PathBuf::from(s): root flag and the normal components (repeated and
\* trailing separators vanish); ".." stays a component
PathFrom(s) ==
    [abs |-> (s # <<>> /\ s[1] = Slash),
     comps |-> NonEmptyPieces(SplitOn(s, Slash))]

\* Path::is_absolute
is_absolute(p) == p.abs

\* Path::join: an absolute right operand replaces the left one
Join(p, q) == IF q.abs THEN q ELSE [abs |-> p.abs, comps |-> p.comps \o q.comps]

\* Path::starts_with: whole components only
starts_with(p, base) ==
    /\ p.abs = base.abs
    /\ Len(base.comps) <= Len(p.comps)
    /\ SubSeq(p.comps, 1, Len(base.comps)) = base.comps

\* Option
None == [some |-> FALSE]
Some(v) == [some |-> TRUE, val |-> v]

\* an environment variable: env::var gives Err when it is not set
Unset == [set |-> FALSE]
SetTo(s) == [set |-> TRUE, val |-> s]


(***************************************************************************)
(* The file system                                                         *)
(***************************************************************************)
\* a permission mode written as its three octal digits
Oct(o, g, w) == o * 64 + g * 8 + w

\* the & of two mode words
RECURSIVE BitAnd(_, _)
BitAnd(a, b) ==
    IF a = 0 \/ b = 0 THEN 0
    ELSE (a % 2) * (b % 2) + 2 * BitAnd(a \div 2, b \div 2)

NoNode == [kind |-> "none", mode |-> 0, target |-> <<>>]
DirNode(m) == [kind |-> "dir", mode |-> m, target |-> <<>>]
FileNode(m) == [kind |-> "file", mode |-> m, target |-> <<>>]
LinkNode(t) == [kind |-> "symlink", mode |-> Oct(7, 7, 7), target |-> t]

\* the strings the model names
S_usr_bin == <<"/", "usr", "/", "bin">>
S_usr_local_bin == <<"/", "usr", "/", "local", "/", "bin">>
S_bin == <<"/", "bin">>
S_local_bin == <<".local", "/", "bin">>
S_home_u == <<"/", "home", "/", "u">>
S_tmp == <<"/", "tmp">>
S_ls == <<"ls">>
S_ls_l == <<"ls", " ", "-l">>

Loc(s) == PathFrom(s).comps
Under(dirStr, nameStr) == Loc(dirStr) \o <<nameStr>>

\* directories that are always there, mode 0755, owned by root
FixedDirs ==
    {<<>>, Loc(<<"/", "usr">>), Loc(<<"/", "usr", "/", "local">>),
     Loc(<<"/", "home">>), Loc(S_home_u), Loc(S_home_u \o <<"/", ".local">>)}

\* locations whose node the outside world can change
DirSlots ==
    {Loc(S_usr_bin), Loc(S_usr_local_bin), Loc(S_home_u \o <<"/">> \o S_local_bin),
     Loc(S_tmp)}
LinkDirSlots == {Loc(S_bin)}
EntrySlots ==
    {Under(S_usr_bin, S_ls), Under(S_usr_local_bin, S_ls),
     Under(S_home_u \o <<"/">> \o S_local_bin, S_ls), Under(S_tmp, S_ls),
     Under(S_usr_bin, S_ls_l)}
Slots == DirSlots \cup LinkDirSlots \cup EntrySlots

DirModes == {Oct(7, 5, 5), Oct(7, 7, 5)}
FileModes == {Oct(7, 5, 5), Oct(6, 4, 4), Oct(6, 5, 4)}
\* what a new link may point to: a file for an entry, a directory for /bin
LinkTargets == {S_usr_bin \o <<"/">> \o S_ls, S_tmp \o <<"/">> \o S_ls}
DirLinkTargets == {<<"usr", "/", "bin">>, S_tmp}

\* the process's working directory
Cwd == PathFrom(S_home_u)

Lookup(f, loc) ==
    IF loc \in FixedDirs THEN DirNode(Oct(7, 5, 5))
    ELSE IF loc \in DOMAIN f THEN f[loc]
    ELSE NoNode

Parent(loc) == IF loc = <<>> THEN <<>> ELSE SubSeq(loc, 1, Len(loc) - 1)

\* realpath: walk the components from cur, following symbolic links
RECURSIVE Walk(_, _, _, _)
Walk(f, cur, rest, fuel) ==
    IF rest = <<>> THEN [ok |-> TRUE, loc |-> cur]
    ELSE LET c == Head(rest)
             r == Tail(rest)
             n == Lookup(f, Append(cur, c))
         IN  IF c = DotDot THEN Walk(f, Parent(cur), r, fuel)
             ELSE IF n.kind = "dir" THEN Walk(f, Append(cur, c), r, fuel)
             ELSE IF n.kind = "file"
                  THEN IF r = <<>> THEN [ok |-> TRUE, loc |-> Append(cur, c)]
                       ELSE [ok |-> FALSE, loc |-> <<>>]
             ELSE IF n.kind = "symlink" /\ fuel > 0
                  THEN LET t == PathFrom(n.target)
                       IN  Walk(f, IF t.abs THEN <<>> ELSE cur,
                                t.comps \o r, fuel - 1)
             ELSE [ok |-> FALSE, loc |-> <<>>]

\* fs::canonicalize: Err for the empty path, a missing component, a file used
\* as a directory or too many links; relative paths start at the working
\* directory
canonicalize(f, p) ==
    IF ~p.abs /\ p.comps = <<>> THEN [ok |-> FALSE, path |-> p]
    ELSE LET w == Walk(f, <<>>, IF p.abs THEN p.comps ELSE Cwd.comps \o p.comps,
                       MaxLinkDepth)
         IN  [ok |-> w.ok, path |-> [abs |-> TRUE, comps |-> w.loc]]

\* fs::metadata: the node the path leads to, symbolic links followed
metadata(f, p) ==
    LET c == canonicalize(f, p)
    IN  IF c.ok THEN [ok |-> TRUE, node |-> Lookup(f, c.path.comps)]
        ELSE [ok |-> FALSE, node |-> NoNode]

is_file(meta) == meta.node.kind = "file"

(***************************************************************************)
(* src/launcher.rs                                                         *)
(***************************************************************************)
allowed_bins(home) ==
    LET dirs == <<PathFrom(S_usr_bin), PathFrom(S_usr_local_bin), PathFrom(S_bin)>>
    IN  IF home.set
        THEN Append(dirs, Join(PathFrom(home.val), PathFrom(S_local_bin)))
        ELSE dirs

\* variant: every file counts as executable
is_executable_always(meta) == TRUE

is_executable(meta) == BitAnd(meta.node.mode, Oct(1, 1, 1)) # 0

dir_world_writable(f, dir) ==
    LET meta == metadata(f, dir)
    IN  IF meta.ok THEN BitAnd(meta.node.mode, Oct(0, 2, 2)) # 0 ELSE TRUE

\* variant: the prefix test on the paths as written, nothing resolved
is_allowed_path_lexical(f, home, path) ==
    \E i \in 1..Len(allowed_bins(home)) : starts_with(path, allowed_bins(home)[i])

is_allowed_path(f, home, path) ==
    LET canon == canonicalize(f, path)
        bins == allowed_bins(home)
    IN  /\ canon.ok
        /\ \E i \in 1..Len(bins) :
              LET base_canon == canonicalize(f, bins[i])
              IN  base_canon.ok /\ starts_with(canon.path, base_canon.path)

\* variant: a writable PATH directory ends the scan
RECURSIVE ScanPath_abort(_, _, _, _, _)
ScanPath_abort(f, home, segs, i, cmd) ==
    IF i > Len(segs) THEN None
    ELSE LET dir_str == segs[i]
             dir == PathFrom(dir_str)
             path == Join(dir, PathFrom(cmd))
             meta == metadata(f, path)
             canon == canonicalize(f, path)
         IN  IF dir_str = <<>> THEN ScanPath_abort(f, home, segs, i + 1, cmd)
             ELSE IF ~is_absolute(dir) THEN ScanPath_abort(f, home, segs, i + 1, cmd)
             ELSE IF dir_world_writable(f, dir) THEN None
             ELSE IF /\ meta.ok
                     /\ is_file(meta) /\ is_executable(meta)
                     /\ is_allowed_path(f, home, path)
                     /\ canon.ok
                  THEN Some(canon.path)
             ELSE ScanPath_abort(f, home, segs, i + 1, cmd)

\* variant: the last match of PATH wins
RECURSIVE ScanPath_last(_, _, _, _, _)
ScanPath_last(f, home, segs, i, cmd) ==
    IF i > Len(segs) THEN None
    ELSE LET dir_str == segs[i]
             dir == PathFrom(dir_str)
             path == Join(dir, PathFrom(cmd))
             meta == metadata(f, path)
             canon == canonicalize(f, path)
             later == ScanPath_last(f, home, segs, i + 1, cmd)
         IN  IF later.some THEN later
             ELSE IF dir_str = <<>> THEN None
             ELSE IF ~is_absolute(dir) THEN None
             ELSE IF dir_world_writable(f, dir) THEN None
             ELSE IF /\ meta.ok
                     /\ is_file(meta) /\ is_executable(meta)
                     /\ is_allowed_path(f, home, path)
                     /\ canon.ok
                  THEN Some(canon.path)
             ELSE None

\* the loop over the PATH segments, from segment i on
RECURSIVE ScanPath(_, _, _, _, _)
ScanPath(f, home, segs, i, cmd) ==
    IF i > Len(segs) THEN None
    ELSE LET dir_str == segs[i]
             dir == PathFrom(dir_str)
             path == Join(dir, PathFrom(cmd))
             meta == metadata(f, path)
             canon == canonicalize(f, path)
         IN  IF dir_str = <<>> THEN ScanPath(f, home, segs, i + 1, cmd)
             ELSE IF ~is_absolute(dir) THEN ScanPath(f, home, segs, i + 1, cmd)
             ELSE IF dir_world_writable(f, dir)
                  THEN ScanPath(f, home, segs, i + 1, cmd)
             ELSE IF /\ meta.ok
                     /\ is_file(meta) /\ is_executable(meta)
                     /\ is_allowed_path(f, home, path)
                     /\ canon.ok
                  THEN Some(canon.path)
             ELSE ScanPath(f, home, segs, i + 1, cmd)

\* variant: an absolute command is not put to the allowlist test
resolve_command_absolute_unchecked(f, home, pathv, cmd) ==
    LET candidate == PathFrom(cmd)
        meta == metadata(f, candidate)
        canon == canonicalize(f, candidate)
    IN  IF is_absolute(candidate)
        THEN IF ~meta.ok THEN None
             ELSE IF is_file(meta) /\ is_executable(meta)
                  THEN IF canon.ok THEN Some(canon.path) ELSE None
             ELSE None
        ELSE IF ~pathv.set THEN None
        ELSE ScanPath(f, home, SplitOn(pathv.val, Colon), 1, cmd)

\* variant: PATH is read before the command is looked at
resolve_command_path_first(f, home, pathv, cmd) ==
    LET candidate == PathFrom(cmd)
        meta == metadata(f, candidate)
        canon == canonicalize(f, candidate)
    IN  IF ~pathv.set THEN None
        ELSE IF is_absolute(candidate)
        THEN IF ~meta.ok THEN None
             ELSE IF is_file(meta) /\ is_executable(meta)
                     /\ is_allowed_path(f, home, candidate)
                  THEN IF canon.ok THEN Some(canon.path) ELSE None
             ELSE None
        ELSE ScanPath(f, home, SplitOn(pathv.val, Colon), 1, cmd)

resolve_command(f, home, pathv, cmd) ==
    LET candidate == PathFrom(cmd)
        meta == metadata(f, candidate)
        canon == canonicalize(f, candidate)
    IN  IF is_absolute(candidate)
        THEN IF ~meta.ok THEN None
             ELSE IF is_file(meta) /\ is_executable(meta)
                     /\ is_allowed_path(f, home, candidate)
                  THEN IF canon.ok THEN Some(canon.path) ELSE None
             ELSE None
        ELSE IF ~pathv.set THEN None
        ELSE ScanPath(f, home, SplitOn(pathv.val, Colon), 1, cmd)

(***************************************************************************)
(* The environment the launcher runs in                                    *)
(***************************************************************************)
HomeValues == {Unset, SetTo(<<>>), SetTo(S_home_u)}

PathValues ==
    {Unset,
     SetTo(S_tmp \o <<":">> \o S_usr_bin),
     SetTo(S_usr_local_bin \o <<":", ":", "bin", ":">> \o S_usr_bin),
     SetTo(S_home_u \o <<"/">> \o S_local_bin \o <<":">> \o S_bin)}

\* the command strings handed to resolve_command
Cmds ==
    {S_ls,
     S_usr_local_bin \o <<"/">> \o S_ls,
     S_bin \o <<"/">> \o S_ls,
     S_tmp \o <<"/">> \o S_ls,
     S_tmp \o <<"/", "..">> \o S_usr_bin \o <<"/">> \o S_ls,
     <<"..", "/", "local", "/", "bin", "/", "ls">>}

\* a merged-/usr system: /bin is a link to usr/bin, /tmp is open to everyone
BaseFs ==
    [loc \in Slots |->
        IF loc = Loc(S_tmp) THEN DirNode(Oct(7, 7, 7))
        ELSE IF loc \in DirSlots THEN DirNode(Oct(7, 5, 5))
        ELSE IF loc = Loc(S_bin) THEN LinkNode(<<"usr", "/", "bin">>)
        ELSE IF loc = Under(S_usr_bin, S_ls) THEN FileNode(Oct(7, 5, 5))
        ELSE NoNode]

NotCalled == [called |-> FALSE]
Idle == [cmd |-> <<>>, args |-> None]
NoInput == [op |-> "none"]

Init ==
    /\ fs = BaseFs
    /\ home_env \in HomeValues
    /\ path_env \in PathValues
    /\ fsOps = 0
    /\ res = NotCalled
    /\ pc = "menu"
    /\ app = Idle
    /\ calls = <<>>
    /\ resolved_path = None
    /\ final_args = None
    /\ spawned = None
    /\ refused = FALSE
    /\ apps = <<>>
    /\ selected = 0
    /\ raw_mode = TRUE
    /\ alt_screen = TRUE
    /\ config_file = <<>>
    /\ msg = ""
    /\ input = NoInput

launchVars == <<pc, app, calls, resolved_path, final_args, spawned, refused>>

\* the outside world changes the file system only before resolve_command is
\* called on it: the call sees one snapshot
WorldMayAct == fsOps < MaxFsOps /\ ~res.called

\* chmod on a directory
Chmod(loc, m) ==
    /\ WorldMayAct
    /\ loc \in DirSlots
    /\ fs[loc].kind = "dir" /\ fs[loc].mode # m
    /\ fs' = [fs EXCEPT ![loc] = DirNode(m)]
    /\ fsOps' = fsOps + 1
    /\ UNCHANGED <<home_env, path_env, res, launchVars, termVars, menuVars>>

\* a new regular file in an existing directory
CreateFile(loc, m) ==
    /\ WorldMayAct
    /\ loc \in EntrySlots
    /\ fs[loc].kind = "none" /\ Lookup(fs, Parent(loc)).kind = "dir"
    /\ fs' = [fs EXCEPT ![loc] = FileNode(m)]
    /\ fsOps' = fsOps + 1
    /\ UNCHANGED <<home_env, path_env, res, launchVars, termVars, menuVars>>

\* a new symbolic link in an existing directory
MakeSymlink(loc, t) ==
    /\ WorldMayAct
    /\ \/ loc \in EntrySlots /\ t \in LinkTargets
       \/ loc \in LinkDirSlots /\ t \in DirLinkTargets
    /\ fs[loc].kind = "none" /\ Lookup(fs, Parent(loc)).kind = "dir"
    /\ fs' = [fs EXCEPT ![loc] = LinkNode(t)]
    /\ fsOps' = fsOps + 1
    /\ UNCHANGED <<home_env, path_env, res, launchVars, termVars, menuVars>>

\* unlink of a file or link
Remove(loc) ==
    /\ WorldMayAct
    /\ fs[loc].kind \in {"file", "symlink"}
    /\ fs' = [fs EXCEPT ![loc] = NoNode]
    /\ fsOps' = fsOps + 1
    /\ UNCHANGED <<home_env, path_env, res, launchVars, termVars, menuVars>>

\* one call of resolve_command with the environment as it is
Resolve(cmd) ==
    /\ pc = "menu" /\ ~res.called
    /\ res' = [called |-> TRUE, cmd |-> cmd,
               out |-> resolve_command(fs, home_env, path_env, cmd)]
    /\ UNCHANGED <<fs, home_env, path_env, fsOps, launchVars, termVars, menuVars>>

\* the entries the commands of Cmds can lead to
ResolverSlots == (EntrySlots \ {Under(S_usr_bin, S_ls_l)}) \cup LinkDirSlots

Next ==
    \/ \E loc \in DirSlots, m \in DirModes : Chmod(loc, m)
    \/ \E loc \in ResolverSlots, m \in FileModes : CreateFile(loc, m)
    \/ \E loc \in ResolverSlots, t \in LinkTargets \cup DirLinkTargets :
          MakeSymlink(loc, t)
    \/ \E loc \in ResolverSlots : Remove(loc)
    \/ \E cmd \in Cmds : Resolve(cmd)

Spec == Init /\ [][Next]_vars

\* the paths is_allowed_path is asked about: trusted directories themselves,
\* their parent, and entries inside and outside them
ProbePaths ==
    {S_usr_bin, S_bin, <<"/", "usr">>,
     S_usr_bin \o <<"/">> \o S_ls, S_usr_local_bin \o <<"/">> \o S_ls,
     S_tmp \o <<"/">> \o S_ls}

\* one call of is_allowed_path with the environment as it is
CheckAllowed(p) ==
    /\ pc = "menu" /\ ~res.called
    /\ res' = [called |-> TRUE, cmd |-> p,
               allowed |-> is_allowed_path(fs, home_env, PathFrom(p))]
    /\ UNCHANGED <<fs, home_env, path_env, fsOps, launchVars, termVars, menuVars>>

NextAllow ==
    \/ \E loc \in DirSlots, m \in DirModes : Chmod(loc, m)
    \/ \E loc \in ResolverSlots, m \in FileModes : CreateFile(loc, m)
    \/ \E loc \in ResolverSlots, t \in LinkTargets \cup DirLinkTargets :
          MakeSymlink(loc, t)
    \/ \E loc \in ResolverSlots : Remove(loc)
    \/ \E p \in ProbePaths : CheckAllowed(p)

SpecAllow == Init /\ [][NextAllow]_vars

(***************************************************************************)
(* src/main.rs: launch_app                                                 *)
(***************************************************************************)
S_extra == <<"--extra">>

\* the records the menu can launch: cmd is a string, args an Option<Vec<String>>
LaunchCmds ==
    {S_ls, S_ls_l, <<" ", "ls", " ", "-l", " ", " ", "-a">>,
     S_tmp \o <<"/">> \o S_ls_l, S_usr_bin \o <<"/">> \o S_ls}
LaunchArgs == {None, Some(<<S_extra>>), Some(<<S_extra, <<"-l">>>>)}
Apps == [cmd : LaunchCmds, args : LaunchArgs]

\* main() stops before the menu unless HOME is set
LaunchHomeValues == {h \in HomeValues : h.set}
LaunchPathValues ==
    {SetTo(S_tmp \o <<":">> \o S_usr_bin),
     SetTo(S_usr_local_bin \o <<":", ":", "bin", ":">> \o S_usr_bin)}

LaunchInit ==
    /\ fs = BaseFs
    /\ home_env \in LaunchHomeValues
    /\ path_env \in LaunchPathValues
    /\ fsOps = 0
    /\ res = NotCalled
    /\ pc = "menu"
    /\ app = Idle
    /\ calls = <<>>
    /\ resolved_path = None
    /\ final_args = None
    /\ spawned = None
    /\ refused = FALSE
    /\ apps = <<>>
    /\ selected = 0
    /\ raw_mode = TRUE
    /\ alt_screen = TRUE
    /\ config_file = <<>>
    /\ msg = ""
    /\ input = NoInput

\* variant: the alternate screen is left but raw mode stays on
leave_tui_screen_only == [raw_mode |-> TRUE, alt_screen |-> FALSE]

\* disable_raw_mode, then LeaveAlternateScreen and cursor::Show
leave_tui == [raw_mode |-> FALSE, alt_screen |-> FALSE]

\* enable_raw_mode, then EnterAlternateScreen and cursor::Hide
restore_tui == [raw_mode |-> TRUE, alt_screen |-> TRUE]

\* the terminal is left for the launch, then
\* let mut resolved_path = None; let mut final_args = app.args.clone();
LaunchStart(a) ==
    /\ pc = "menu"
    /\ app' = a
    /\ calls' = <<>>
    /\ resolved_path' = None
    /\ final_args' = a.args
    /\ spawned' = None
    /\ refused' = FALSE
    /\ pc' = "resolve"
    /\ raw_mode' = leave_tui.raw_mode
    /\ alt_screen' = leave_tui.alt_screen
    /\ msg' = ""
    /\ UNCHANGED <<fs, home_env, path_env, fsOps, res>>
    /\ UNCHANGED <<apps, selected, config_file, input>>

\* 1. Try standard resolution
ResolveDirect ==
    /\ pc = "resolve"
    /\ resolved_path' = resolve_command(fs, home_env, path_env, app.cmd)
    /\ calls' = Append(calls, [cmd |-> app.cmd, out |-> resolved_path'])
    /\ pc' = IF resolved_path'.some THEN "spawn" ELSE "fallback"
    /\ UNCHANGED <<fs, home_env, path_env, fsOps, res, app, final_args,
                   spawned, refused, termVars, menuVars>>

\* variant: the fallback is tried for a single part too
FallbackApplies_any(parts) == Len(parts) > 0

\* the fallback is tried when the split gives more than one part
FallbackApplies(parts) == Len(parts) > 1

\* variant: the explicit args come first
FallbackArgs_explicit_first(parts, existing) ==
    Some((IF existing.some THEN existing.val ELSE <<>>) \o Tail(parts))

\* new_args = implicit_args, extended by the existing explicit args
FallbackArgs(parts, existing) ==
    Some(Tail(parts) \o (IF existing.some THEN existing.val ELSE <<>>))

\* 2. Fallback: split the command by whitespace and resolve the first part
Fallback ==
    /\ pc = "fallback"
    /\ LET parts == split_whitespace(app.cmd)
       IN  IF FallbackApplies(parts)
           THEN /\ resolved_path' =
                       resolve_command(fs, home_env, path_env, parts[1])
                /\ calls' = Append(calls, [cmd |-> parts[1], out |-> resolved_path'])
                /\ final_args' = IF resolved_path'.some
                                 THEN FallbackArgs(parts, final_args)
                                 ELSE final_args
                /\ pc' = IF resolved_path'.some THEN "spawn" ELSE "refuse"
           ELSE /\ pc' = "refuse"
                /\ UNCHANGED <<calls, resolved_path, final_args>>
    /\ UNCHANGED <<fs, home_env, path_env, fsOps, res, app, spawned, refused,
                   termVars, menuVars>>

\* variant: the command string itself is started
SpawnProgram_cmd(rp, a) == PathFrom(a.cmd)

\* Command::new(&path)
SpawnProgram(rp, a) == rp.val

\* command.args(args) when there are args
SpawnArgv(fa) == IF fa.some THEN fa.val ELSE <<>>

\* the operating system starts the program if it is an executable file now
ExecOk(f, program) ==
    LET meta == metadata(f, program)
    IN  meta.ok /\ is_file(meta) /\ is_executable(meta)

\* what launch_app prints
ProcessExited == "Process exited with status"
FailedToLaunch == "Failed to launch command"
Refusing == "Refusing to launch command"

\* variant: a failure to start the program is passed up with `?`
AfterSpawn_propagate(ok) == IF ok THEN "pause" ELSE "exited"

\* both arms of the match on command.status() print and go on to
\* pause_with_message
AfterSpawn(ok) == "pause"

\* command.status(), then the exit status or the failure is printed, and
\* pause_with_message puts the terminal in raw mode to wait for a key
Spawn ==
    /\ pc = "spawn"
    /\ spawned' = Some([program |-> SpawnProgram(resolved_path, app),
                        argv |-> SpawnArgv(final_args),
                        ok |-> ExecOk(fs, SpawnProgram(resolved_path, app))])
    /\ msg' = IF spawned'.val.ok THEN ProcessExited ELSE FailedToLaunch
    /\ raw_mode' = TRUE
    /\ pc' = AfterSpawn(spawned'.val.ok)
    /\ UNCHANGED <<fs, home_env, path_env, fsOps, res, app, calls,
                   resolved_path, final_args, refused>>
    /\ UNCHANGED <<alt_screen, apps, selected, config_file, input>>

\* "Refusing to launch command: ..." and the allowed locations, then
\* pause_with_message
Refuse ==
    /\ pc = "refuse"
    /\ refused' = TRUE
    /\ msg' = Refusing
    /\ raw_mode' = TRUE
    /\ pc' = "pause"
    /\ UNCHANGED <<fs, home_env, path_env, fsOps, res, app, calls,
                   resolved_path, final_args, spawned>>
    /\ UNCHANGED <<alt_screen, apps, selected, config_file, input>>

\* variant: the cursor is left where it is
Clamp_none(sel, list) == sel

\* the top of the menu loop: the cursor is pulled back onto the list
Clamp(sel, list) ==
    IF list # <<>> /\ sel >= Len(list) THEN Len(list) - 1 ELSE sel

\* a key ends pause_with_message, the TUI is restored, launch_app returns
\* and its locals are gone, and the menu loop clamps the cursor, draws the
\* list and waits for the next event
Return ==
    /\ pc = "pause"
    /\ raw_mode' = restore_tui.raw_mode
    /\ alt_screen' = restore_tui.alt_screen
    /\ selected' = Clamp(selected, apps)
    /\ input' = NoInput
    /\ msg' = ""
    /\ pc' = "menu"
    /\ app' = Idle
    /\ calls' = <<>>
    /\ resolved_path' = None
    /\ final_args' = None
    /\ spawned' = None
    /\ refused' = FALSE
    /\ UNCHANGED <<fs, home_env, path_env, fsOps, res, apps, config_file>>

\* launch_app, with the outside world free to change files between its steps
NextLaunch ==
    \/ \E a \in Apps : LaunchStart(a)
    \/ ResolveDirect
    \/ Fallback
    \/ Spawn
    \/ Refuse
    \/ Return
    \/ \E loc \in EntrySlots, m \in FileModes : CreateFile(loc, m)
    \/ \E loc \in EntrySlots : Remove(loc)

SpecLaunch == LaunchInit /\ [][NextLaunch]_vars

(***************************************************************************)
(* run_app (src/main.rs): the menu loop with its add, edit and delete      *)
(* handlers, the cursor, the terminal modes and the config file            *)
(***************************************************************************)
\* str::trim on a line the user typed
RECURSIVE TrimStart(_)
TrimStart(s) == IF s # <<>> /\ Head(s) = Space THEN TrimStart(Tail(s)) ELSE s
Reverse(s) == [i \in 1..Len(s) |-> s[Len(s) + 1 - i]]
trim(s) == Reverse(TrimStart(Reverse(TrimStart(s))))

\* prompt returns the trimmed line
prompt(line) == trim(line)

\* prompt_with_default returns the default when the trimmed line is empty
prompt_with_default(line, default) ==
    IF trim(line) = <<>> THEN default ELSE trim(line)

\* answer.eq_ignore_ascii_case("y")
IsYes(answer) == answer \in {<<"y">>, <<"Y">>}

\* str::to_lowercase on names written with the letters a, b, B
to_lowercase(s) == [i \in 1..Len(s) |-> IF s[i] = "B" THEN "b" ELSE s[i]]

\* the byte order of the letters
ByteOf(ch) == CASE ch = "B" -> 66 [] ch = "a" -> 97 [] ch = "b" -> 98
                [] OTHER -> 32

\* String::cmp is less-or-equal: bytewise, a prefix first
RECURSIVE StrLeq(_, _)
StrLeq(s, t) ==
    IF s = <<>> THEN TRUE
    ELSE IF t = <<>> THEN FALSE
    ELSE IF ByteOf(Head(s)) # ByteOf(Head(t))
         THEN ByteOf(Head(s)) < ByteOf(Head(t))
    ELSE StrLeq(Tail(s), Tail(t))

\* a put into the sorted list after every element that is not greater
RECURSIVE InsertByName(_, _)
InsertByName(list, a) ==
    IF list = <<>> THEN <<a>>
    ELSE IF StrLeq(to_lowercase(Head(list).name), to_lowercase(a.name))
         THEN <<Head(list)>> \o InsertByName(Tail(list), a)
    ELSE <<a>> \o list

\* config.apps.sort_by(|a, b| a.name.to_lowercase().cmp(...)): a stable sort
RECURSIVE sort_by_name(_)
sort_by_name(list) ==
    IF list = <<>> THEN <<>>
    ELSE InsertByName(sort_by_name(SubSeq(list, 1, Len(list) - 1)),
                      list[Len(list)])

\* args.join(" ")
RECURSIVE JoinSpace(_)
JoinSpace(args) ==
    IF args = <<>> THEN <<>>
    ELSE IF Len(args) = 1 THEN args[1]
    ELSE args[1] \o <<Space>> \o JoinSpace(Tail(args))

\* the command line the edit prompt offers as the default
full_cmd_str(a) ==
    IF a.args.some THEN a.cmd \o <<Space>> \o JoinSpace(a.args.val) ELSE a.cmd

\* cmd = parts[0], args = Some(parts[1..]) when there are more parts
ParseCommand(parts) ==
    [cmd |-> parts[1],
     args |-> IF Len(parts) > 1 THEN Some(Tail(parts)) ELSE None]

\* variant: no key is ever found in use
key_exists_never(list, key) == FALSE

\* config.apps.iter().any(|app| app.key == key)
key_exists(list, key) == \E i \in 1..Len(list) : list[i].key = key

\* any(|(i, check_app)| i != selected && check_app.key == new_key)
key_conflict(list, sel, key) ==
    \E i \in 1..Len(list) : i # sel + 1 /\ list[i].key = key

\* config.apps.remove(selected), selected counted from 0
RemoveAt(list, sel) == SubSeq(list, 1, sel) \o SubSeq(list, sel + 2, Len(list))

\* the config file: absent, or holding the list of apps last written
Absent == [exists |-> FALSE]
FileWith(list) == [exists |-> TRUE, apps |-> list]

\* variant: nothing is written
save_nothing(file, list) == file

\* Config::save: the list is serialized and written over the file
save(file, list) == FileWith(list)

\* Drop for TerminalGuard
drop_guard == [raw_mode |-> FALSE, alt_screen |-> FALSE]

\* what the handlers print before pause_with_message, and main on an error
KeyInUse == "Error: Key is already in use by another app."
NameKeyEmpty == "Error: Name and Key cannot be empty."
FieldsEmpty == "Error: Fields cannot be empty."
ApplicationError == "Application error"

\* the lines typed at the prompts, before trimming
NameLines == {<<>>, <<"a">>, <<"B">>}
KeyLines == {<<Space>>, <<"k">>, <<Space, "j">>}
CmdLines == {<<>>, S_ls, <<Space, "ls", Space, "-l", Space>>}
AnswerLines == {<<>>, <<"y">>, <<"Y", Space>>, <<"n">>}
\* the characters typed at the menu
MenuChars == {"k", "j", "x"}

\* the app lists a config file can hold: sorted or not, with an empty key,
\* with a command of white space only
App_a == [name |-> <<"a">>, key |-> <<"k">>, cmd |-> S_ls, args |-> None]
App_B == [name |-> <<"B">>, key |-> <<"j">>, cmd |-> S_ls,
          args |-> Some(<<<<"-l">>>>)]
App_nokey == [name |-> <<"b">>, key |-> <<>>, cmd |-> S_ls, args |-> None]
App_blank == [name |-> <<"a">>, key |-> <<"k">>, cmd |-> <<Space>>,
              args |-> None]
ConfigLists == {<<App_a, App_B>>, <<App_B, App_a>>, <<App_nokey>>, <<App_blank>>}

\* main: the config is read if the file exists, the terminal guard is
\* entered, and run_app starts with the cursor on the first app
UiInit ==
    /\ fs = BaseFs
    /\ home_env = SetTo(S_home_u)
    /\ path_env = SetTo(S_tmp \o <<":">> \o S_usr_bin)
    /\ fsOps = 0
    /\ res = NotCalled
    /\ pc = "menu"
    /\ app = Idle
    /\ calls = <<>>
    /\ resolved_path = None
    /\ final_args = None
    /\ spawned = None
    /\ refused = FALSE
    /\ config_file \in {Absent} \cup {FileWith(l) : l \in ConfigLists}
    /\ apps = IF config_file.exists THEN config_file.apps ELSE <<>>
    /\ selected = 0
    /\ raw_mode = restore_tui.raw_mode
    /\ alt_screen = restore_tui.alt_screen
    /\ msg = ""
    /\ input = NoInput

fsVars == <<fs, home_env, path_env, fsOps, res>>
\* the locals of launch_app
launchLocals == <<app, calls, resolved_path, final_args, spawned, refused>>

\* run_app returns, main prints the error if there is one, the guard drops
Leave(how, m) ==
    /\ pc' = how
    /\ msg' = m
    /\ raw_mode' = drop_guard.raw_mode
    /\ alt_screen' = drop_guard.alt_screen

\* Ctrl+q
Quit ==
    /\ pc = "menu"
    /\ Leave("exited", "")
    /\ UNCHANGED <<fsVars, launchLocals, apps, selected, config_file, input>>

\* an I/O call on the terminal fails where run_app or launch_app waits for
\* the user or switches the terminal: the error is passed up with `?`
IoError ==
    /\ pc \in {"menu", "pause", "restore", "add_prompt", "edit_prompt",
               "delete_prompt"}
    /\ Leave("exited", ApplicationError)
    /\ UNCHANGED <<fsVars, launchLocals, apps, selected, config_file, input>>

\* KeyCode::Up, then the next turn of the loop
KeyUp ==
    /\ pc = "menu"
    /\ selected' = Clamp(IF selected > 0 THEN selected - 1 ELSE selected, apps)
    /\ UNCHANGED <<fsVars, launchVars, termVars, apps, config_file, msg, input>>

\* KeyCode::Down, then the next turn of the loop
KeyDown ==
    /\ pc = "menu"
    /\ selected' = Clamp(IF apps # <<>> /\ selected + 1 < Len(apps)
                         THEN selected + 1 ELSE selected, apps)
    /\ UNCHANGED <<fsVars, launchVars, termVars, apps, config_file, msg, input>>

\* launch_app reads cmd and args of the app
Launchable(a) == [cmd |-> a.cmd, args |-> a.args]

\* KeyCode::Enter launches the app under the cursor
KeyEnter ==
    /\ apps # <<>>
    /\ LaunchStart(Launchable(apps[selected + 1]))

\* the first app whose key is the character typed
FirstWithKey(list, key) ==
    list[CHOOSE i \in 1..Len(list) :
            /\ list[i].key = key
            /\ \A j \in 1..(i - 1) : list[j].key # key]

\* KeyCode::Char(c) launches the app that has this key
KeyChar(c) ==
    /\ key_exists(apps, <<c>>)
    /\ LaunchStart(Launchable(FirstWithKey(apps, <<c>>)))

\* Ctrl+d on a list that is not empty: the TUI is left for the question
DeleteBegin ==
    /\ pc = "menu"
    /\ apps # <<>>
    /\ raw_mode' = leave_tui.raw_mode
    /\ alt_screen' = leave_tui.alt_screen
    /\ pc' = "delete_prompt"
    /\ UNCHANGED <<fsVars, launchLocals, menuVars>>

\* the answer to "Are you sure ...": on y the app is removed and the config
\* saved; a failed save ends run_app
DeleteAnswer(line, saveOk) ==
    /\ pc = "delete_prompt"
    /\ input' = [op |-> "delete", answer |-> prompt(line)]
    /\ IF IsYes(prompt(line))
       THEN /\ apps' = RemoveAt(apps, selected)
            /\ IF saveOk
               THEN /\ config_file' = save(config_file, apps')
                    /\ pc' = "restore"
                    /\ UNCHANGED <<termVars, msg>>
               ELSE /\ Leave("exited", ApplicationError)
                    /\ UNCHANGED config_file
       ELSE /\ pc' = "restore"
            /\ UNCHANGED <<apps, config_file, termVars, msg>>
    /\ UNCHANGED <<fsVars, launchLocals, selected>>

\* the TUI is restored at the end of a handler and the menu loop clamps the
\* cursor, draws the list and waits for the next event
Restore ==
    /\ pc = "restore"
    /\ raw_mode' = restore_tui.raw_mode
    /\ alt_screen' = restore_tui.alt_screen
    /\ selected' = Clamp(selected, apps)
    /\ input' = NoInput
    /\ msg' = ""
    /\ pc' = "menu"
    /\ UNCHANGED <<fsVars, launchLocals, apps, config_file>>

\* pause_with_message(m): the message, raw mode on, and the wait for a key
PauseWith(m) ==
    /\ msg' = m
    /\ raw_mode' = TRUE
    /\ pc' = "pause"
    /\ UNCHANGED alt_screen

\* config.save(&config_path)?: the file is written, or run_app ends
SaveOrLeave(saveOk) ==
    IF saveOk
    THEN /\ config_file' = save(config_file, apps')
         /\ pc' = "restore"
         /\ UNCHANGED <<termVars, msg>>
    ELSE /\ Leave("exited", ApplicationError)
         /\ UNCHANGED config_file

\* Ctrl+a: the TUI is left for the prompts
AddBegin ==
    /\ pc = "menu"
    /\ raw_mode' = leave_tui.raw_mode
    /\ alt_screen' = leave_tui.alt_screen
    /\ pc' = "add_prompt"
    /\ UNCHANGED <<fsVars, launchLocals, menuVars>>

\* Name and Key are asked and validated; then Command is asked, and when it
\* is not empty the app is pushed, the list sorted and the config saved
AddAnswer(nameLine, keyLine, cmdLine, saveOk) ==
    /\ pc = "add_prompt"
    /\ LET name == prompt(nameLine)
           key == prompt(keyLine)
           cmd_input == prompt(cmdLine)
       IN  IF key_exists(apps, key)
           THEN /\ PauseWith(KeyInUse)
                /\ input' = [op |-> "add", name |-> name, key |-> key,
                             cmd |-> <<>>]
                /\ UNCHANGED <<apps, config_file>>
           ELSE IF name = <<>> \/ key = <<>>
           THEN /\ PauseWith(NameKeyEmpty)
                /\ input' = [op |-> "add", name |-> name, key |-> key,
                             cmd |-> <<>>]
                /\ UNCHANGED <<apps, config_file>>
           ELSE /\ input' = [op |-> "add", name |-> name, key |-> key,
                             cmd |-> cmd_input]
                /\ IF cmd_input # <<>>
                   THEN /\ apps' = sort_by_name(Append(apps,
                               [name |-> name, key |-> key,
                                cmd |-> ParseCommand(split_whitespace(cmd_input)).cmd,
                                args |-> ParseCommand(split_whitespace(cmd_input)).args]))
                        /\ SaveOrLeave(saveOk)
                   ELSE /\ pc' = "restore"
                        /\ UNCHANGED <<apps, config_file, termVars, msg>>
    /\ UNCHANGED <<fsVars, launchLocals, selected>>

\* Ctrl+e on a list that is not empty: the TUI is left for the prompts
EditBegin ==
    /\ pc = "menu"
    /\ apps # <<>>
    /\ raw_mode' = leave_tui.raw_mode
    /\ alt_screen' = leave_tui.alt_screen
    /\ pc' = "edit_prompt"
    /\ UNCHANGED <<fsVars, launchLocals, menuVars>>

\* Name, Key and Command are asked with the current values as defaults and
\* validated; then the app under the cursor is replaced, the list sorted and
\* the config saved.  parts[0] panics when the command is white space only,
\* and the guard drops while the panic unwinds
EditAnswer(nameLine, keyLine, cmdLine, saveOk) ==
    /\ pc = "edit_prompt"
    /\ LET cur == apps[selected + 1]
           new_name == prompt_with_default(nameLine, cur.name)
           new_key == prompt_with_default(keyLine, cur.key)
           new_cmd_input == prompt_with_default(cmdLine, full_cmd_str(cur))
           parts == split_whitespace(new_cmd_input)
       IN  /\ input' = [op |-> "edit", name |-> trim(nameLine),
                        key |-> trim(keyLine), cmd |-> trim(cmdLine)]
           /\ IF key_conflict(apps, selected, new_key)
              THEN /\ PauseWith(KeyInUse)
                   /\ UNCHANGED <<apps, config_file>>
              ELSE IF new_name = <<>> \/ new_key = <<>> \/ new_cmd_input = <<>>
              THEN /\ PauseWith(FieldsEmpty)
                   /\ UNCHANGED <<apps, config_file>>
              ELSE IF parts = <<>>
              THEN /\ Leave("panicked", "")
                   /\ UNCHANGED <<apps, config_file>>
              ELSE /\ apps' = sort_by_name([apps EXCEPT ![selected + 1] =
                              [name |-> new_name, key |-> new_key,
                               cmd |-> ParseCommand(parts).cmd,
                               args |-> ParseCommand(parts).args]])
                   /\ SaveOrLeave(saveOk)
    /\ UNCHANGED <<fsVars, launchLocals, selected>>

\* the binary of the model's apps, which the outside world removes and puts
\* back while the menu runs
UiSlots == {Under(S_usr_bin, S_ls)}

NextUI ==
    \/ Quit
    \/ IoError
    \/ KeyUp
    \/ KeyDown
    \/ KeyEnter
    \/ \E c \in MenuChars : KeyChar(c)
    \/ DeleteBegin
    \/ \E line \in AnswerLines, saveOk \in BOOLEAN : DeleteAnswer(line, saveOk)
    \/ AddBegin
    \/ \E n \in NameLines, k \in KeyLines, c \in CmdLines, saveOk \in BOOLEAN :
          AddAnswer(n, k, c, saveOk)
    \/ EditBegin
    \/ \E n \in NameLines, k \in KeyLines, c \in CmdLines, saveOk \in BOOLEAN :
          EditAnswer(n, k, c, saveOk)
    \/ Restore
    \/ ResolveDirect
    \/ Fallback
    \/ Spawn
    \/ Refuse
    \/ Return
    \/ \E loc \in UiSlots : CreateFile(loc, Oct(7, 5, 5))
    \/ \E loc \in UiSlots : Remove(loc)

SpecUI == UiInit /\ [][NextUI]_vars

(***************************************************************************)
(* Vocabulary of the properties                                            *)
(***************************************************************************)
OwnerExec(m) == (m \div 64) % 2 = 1
AnyExec(m) == OwnerExec(m) \/ (m \div 8) % 2 = 1 \/ m % 2 = 1
GroupOrOtherWrite(m) == (m \div 16) % 2 = 1 \/ (m \div 2) % 2 = 1

\* the canonical forms of the trusted directories that have one
CanonBins(f, home) ==
    LET bins == allowed_bins(home)
    IN  {canonicalize(f, bins[i]).path :
            i \in {j \in 1..Len(bins) : canonicalize(f, bins[j]).ok}}

\* a canonical path at or below a canonical trusted directory
InsideCanonBins(f, home, cp) == \E b \in CanonBins(f, home) : starts_with(cp, b)

\* the path resolves, and to a place inside a trusted directory
ResolvesInsideBins(f, home, p) ==
    canonicalize(f, p).ok /\ InsideCanonBins(f, home, canonicalize(f, p).path)

\* where the directory entry p names is: its directory resolved, its last
\* component not followed
EntryLocation(f, p) ==
    LET par == canonicalize(f, [abs |-> TRUE, comps |-> Parent(p.comps)])
    IN  [ok |-> par.ok /\ p.comps # <<>>,
         path |-> [abs |-> TRUE,
                   comps |-> IF p.comps = <<>> THEN <<>>
                             ELSE Append(par.path.comps, p.comps[Len(p.comps)])]]

\* p is named below a trusted directory, or its entry is located in one
UnderTrustedDir(f, home, p) ==
    \/ \E i \in 1..Len(allowed_bins(home)) : starts_with(p, allowed_bins(home)[i])
    \/ EntryLocation(f, p).ok /\ InsideCanonBins(f, home, EntryLocation(f, p).path)

IsSymlinkEntry(f, p) ==
    EntryLocation(f, p).ok /\ Lookup(f, EntryLocation(f, p).path.comps).kind = "symlink"

\* p leads to a regular file with some execute bit
ExecutableFileAt(f, p) ==
    metadata(f, p).ok /\ metadata(f, p).node.kind = "file"
        /\ AnyExec(metadata(f, p).node.mode)

Segments == IF path_env.set THEN SplitOn(path_env.val, Colon) ELSE <<>>

\* the directory is readable and neither group nor others may write to it
DirNotWritable(f, d) ==
    metadata(f, d).ok /\ ~GroupOrOtherWrite(metadata(f, d).node.mode)

\* PATH segment i is searched and holds a match for the command
SegmentMatches(f, home, segs, i, cmd) ==
    LET d == PathFrom(segs[i])
        c == Join(d, PathFrom(cmd))
    IN  /\ segs[i] # <<>> /\ d.abs
        /\ DirNotWritable(f, d)
        /\ ExecutableFileAt(f, c)
        /\ ResolvesInsideBins(f, home, c)

\* PATH segment i is one the scan passes over
SegmentSkipped(f, segs, i) ==
    segs[i] = <<>> \/ ~PathFrom(segs[i]).abs \/ ~DirNotWritable(f, PathFrom(segs[i]))

CalledAbs == res.called /\ PathFrom(res.cmd).abs
CalledRel == res.called /\ ~PathFrom(res.cmd).abs

(***************************************************************************)
(* Properties of resolve_command                                           *)
(***************************************************************************)
\* C1 as stated: an absolute command path that is not under a trusted
\* directory is never resolved, whatever kind of file it is
C1_AsStated ==
    (CalledAbs /\ ~UnderTrustedDir(fs, home_env, PathFrom(res.cmd)))
        => ~res.out.some

\* C1: an absolute command path whose canonical form is not inside the
\* canonical form of any entry of allowed_bins() resolves to None, also when
\* it is an executable regular file, and whatever PATH is
C1_AbsoluteOutsideAllowlist ==
    (CalledAbs /\ ~ResolvesInsideBins(fs, home_env, PathFrom(res.cmd)))
        => res.out = None

C1_Witness ==
    /\ CalledAbs
    /\ ExecutableFileAt(fs, PathFrom(res.cmd))
    /\ ~ResolvesInsideBins(fs, home_env, PathFrom(res.cmd))
    /\ path_env.set
    /\ res.out = None

\* C2: for a relative command the returned executable never lies inside a
\* PATH directory that group or others may write to
C2_NeverInsideWritablePathDir ==
    (CalledRel /\ res.out.some) =>
        \A i \in 1..Len(Segments) :
            LET d == PathFrom(Segments[i])
            IN  (Segments[i] # <<>> /\ d.abs /\ metadata(fs, d).ok
                   /\ GroupOrOtherWrite(metadata(fs, d).node.mode))
                => canonicalize(fs, d).path.comps # Parent(res.out.val.comps)

\* the candidates resolve_command looks at for a command
Candidates(cmd) ==
    IF PathFrom(cmd).abs THEN {PathFrom(cmd)}
    ELSE {Join(PathFrom(Segments[i]), PathFrom(cmd)) :
             i \in {j \in 1..Len(Segments) :
                       Segments[j] # <<>> /\ PathFrom(Segments[j]).abs}}

\* a link located in a trusted directory whose target is outside all of them
EscapingLink(f, home, c) ==
    /\ IsSymlinkEntry(f, c)
    /\ InsideCanonBins(f, home, EntryLocation(f, c).path)
    /\ ~ResolvesInsideBins(f, home, c)

\* C3: a candidate that is a symbolic link inside a trusted directory and
\* resolves outside every trusted directory is not returned, and what is
\* returned is a fully resolved path
C3_SymlinkDefeat ==
    res.called =>
        /\ \A c \in Candidates(res.cmd) :
              EscapingLink(fs, home_env, c)
                  => (res.out.some => res.out.val # canonicalize(fs, c).path)
        /\ res.out.some =>
              /\ canonicalize(fs, res.out.val) = [ok |-> TRUE, path |-> res.out.val]
              /\ InsideCanonBins(fs, home_env, res.out.val)

C3_Witness ==
    /\ res.called
    /\ \E c \in Candidates(res.cmd) :
          EscapingLink(fs, home_env, c) /\ ExecutableFileAt(fs, c)
    /\ res.out = None

\* the returned path was found through a PATH segment that is searched
ReachedViaSafeSegment ==
    \E i \in 1..Len(Segments) :
        LET d == PathFrom(Segments[i])
        IN  /\ Segments[i] # <<>> /\ d.abs /\ DirNotWritable(fs, d)
            /\ canonicalize(fs, Join(d, PathFrom(res.cmd))) =
                   [ok |-> TRUE, path |-> res.out.val]

\* C4 as stated: the returned path is a regular file with the owner execute
\* bit, inside a canonical trusted directory, not found through a writable
\* PATH directory
C4_AsStated ==
    (res.called /\ res.out.some) =>
        /\ Lookup(fs, res.out.val.comps).kind = "file"
        /\ OwnerExec(Lookup(fs, res.out.val.comps).mode)
        /\ InsideCanonBins(fs, home_env, res.out.val)
        /\ CalledRel => ReachedViaSafeSegment

\* C4: the returned path is a regular file with at least one execute bit
\* (owner, group or other), inside a canonical trusted directory, and for a
\* relative command found through a PATH directory that is not writable by
\* group or others
C4_ResolvedPathInvariant ==
    (res.called /\ res.out.some) =>
        /\ Lookup(fs, res.out.val.comps).kind = "file"
        /\ AnyExec(Lookup(fs, res.out.val.comps).mode)
        /\ InsideCanonBins(fs, home_env, res.out.val)
        /\ CalledRel => ReachedViaSafeSegment

C4_Witness ==
    /\ CalledRel /\ res.out.some
    /\ ~OwnerExec(Lookup(fs, res.out.val.comps).mode)
    /\ ReachedViaSafeSegment

\* D is a trusted PATH directory, not writable, with an executable file N
TrustedDirHolds(f, home, segs, i, cmd) ==
    LET d == PathFrom(segs[i])
    IN  /\ segs[i] # <<>> /\ d.abs
        /\ canonicalize(f, d).ok /\ canonicalize(f, d).path \in CanonBins(f, home)
        /\ DirNotWritable(f, d)
        /\ ExecutableFileAt(f, Join(d, PathFrom(cmd)))

\* C5 as stated: for every such directory D of PATH the result is the
\* canonical form of D/N, whatever is listed before D
C5_AsStated ==
    CalledRel =>
        \A i \in 1..Len(Segments) :
            TrustedDirHolds(fs, home_env, Segments, i, res.cmd)
                => res.out = Some(canonicalize(fs,
                       Join(PathFrom(Segments[i]), PathFrom(res.cmd))).path)

\* C5: if D is a trusted PATH directory, not writable by group or others,
\* and D/N is an executable regular file whose canonical form is inside a
\* canonical trusted directory, the result is Some path; it is the canonical
\* form of D/N when no PATH segment listed before D holds a match
C5_FoundInTrustedDir ==
    CalledRel =>
        \A i \in 1..Len(Segments) :
            (/\ TrustedDirHolds(fs, home_env, Segments, i, res.cmd)
             /\ ResolvesInsideBins(fs, home_env,
                    Join(PathFrom(Segments[i]), PathFrom(res.cmd))))
            => /\ res.out.some
               /\ (\A j \in 1..(i - 1) :
                      ~SegmentMatches(fs, home_env, Segments, j, res.cmd))
                  => res.out = Some(canonicalize(fs,
                         Join(PathFrom(Segments[i]), PathFrom(res.cmd))).path)

C5_Witness ==
    /\ CalledRel
    /\ \E i, j \in 1..Len(Segments) :
          /\ j < i
          /\ TrustedDirHolds(fs, home_env, Segments, i, res.cmd)
          /\ SegmentMatches(fs, home_env, Segments, i, res.cmd)
          /\ SegmentMatches(fs, home_env, Segments, j, res.cmd)
          /\ canonicalize(fs, Join(PathFrom(Segments[i]), PathFrom(res.cmd)))
                # canonicalize(fs, Join(PathFrom(Segments[j]), PathFrom(res.cmd)))
    /\ res.out.some

\* a string list joined with ":" again
RECURSIVE JoinColon(_)
JoinColon(segs) ==
    IF Len(segs) = 0 THEN <<>>
    ELSE IF Len(segs) = 1 THEN segs[1]
    ELSE segs[1] \o <<Colon>> \o JoinColon(Tail(segs))

Without(segs, i) == SubSeq(segs, 1, i - 1) \o SubSeq(segs, i + 1, Len(segs))

\* C6: for a relative command the result is the canonical candidate of the
\* earliest PATH segment that is searched and holds a match, None if there
\* is none; a skipped segment does not end the scan: PATH without it gives
\* the same result
C6_FirstMatchAndSkip ==
    (CalledRel /\ path_env.set) =>
        LET hits == {i \in 1..Len(Segments) :
                        SegmentMatches(fs, home_env, Segments, i, res.cmd)}
        IN  /\ hits = {} => res.out = None
            /\ hits # {} =>
                  LET first == CHOOSE i \in hits : \A j \in hits : i <= j
                  IN  res.out = Some(canonicalize(fs,
                          Join(PathFrom(Segments[first]), PathFrom(res.cmd))).path)
            /\ \A i \in 1..Len(Segments) :
                  SegmentSkipped(fs, Segments, i)
                  => resolve_command(fs, home_env,
                         SetTo(JoinColon(Without(Segments, i))), res.cmd) = res.out

C6_Witness ==
    /\ CalledRel /\ path_env.set
    /\ \E i, j \in 1..Len(Segments) :
          /\ i < j
          /\ SegmentSkipped(fs, Segments, i)
          /\ PathFrom(Segments[i]).abs
          /\ ExecutableFileAt(fs, Join(PathFrom(Segments[i]), PathFrom(res.cmd)))
          /\ res.out = Some(Join(PathFrom(Segments[j]), PathFrom(res.cmd)))

\* C10: allowed_bins() is /usr/bin, /usr/local/bin and /bin, plus
\* <HOME>/.local/bin exactly when HOME is set and not empty, and every entry
\* is an absolute path
C10_TrustedDirectories ==
    LET bins == allowed_bins(home_env)
        got == {bins[i] : i \in 1..Len(bins)}
        system == {PathFrom(S_usr_bin), PathFrom(S_usr_local_bin), PathFrom(S_bin)}
        personal == IF home_env.set /\ home_env.val # <<>>
                    THEN {PathFrom(home_env.val \o <<"/">> \o S_local_bin)}
                    ELSE {}
    IN  /\ got = system \cup personal
        /\ \A b \in got : b.abs

(***************************************************************************)
(* Properties of launch_app                                                *)
(***************************************************************************)
Tokens == split_whitespace(app.cmd)
ExplicitArgs == IF app.args.some THEN app.args.val ELSE <<>>
AllCallsFailed == \A i \in 1..Len(calls) : ~calls[i].out.some

\* C7: the program that is started is a path resolve_command returned in
\* this call of launch_app, for the command string or for its first token;
\* it is started itself, not a shell; and when every attempt returned None
\* nothing is started and the refusal is shown
C7_NoLaunchWithoutResolution ==
    /\ spawned.some =>
          /\ \E i \in 1..Len(calls) :
                /\ calls[i].out = Some(spawned.val.program)
                /\ \/ calls[i].cmd = app.cmd
                   \/ Tokens # <<>> /\ calls[i].cmd = Tokens[1]
          /\ ~refused
    /\ (pc = "pause" /\ AllCallsFailed) => (~spawned.some /\ refused)
    /\ refused => (AllCallsFailed /\ ~spawned.some)

C7_Witness ==
    /\ pc = "pause" /\ spawned.some
    /\ Len(calls) = 2 /\ ~calls[1].out.some
    /\ PathFrom(app.cmd) # spawned.val.program

\* C8: when the full string does not resolve, it splits into t1..tn with
\* n >= 2 and t1 resolves, the argument vector is t2..tn followed by the
\* record's explicit args in their order
C8_FallbackArgumentOrder ==
    (/\ spawned.some
     /\ Len(calls) = 2 /\ ~calls[1].out.some /\ calls[2].out.some
     /\ Len(Tokens) >= 2)
    => spawned.val.argv = SubSeq(Tokens, 2, Len(Tokens)) \o ExplicitArgs

C8_Witness ==
    /\ spawned.some
    /\ Len(calls) = 2 /\ ~calls[1].out.some /\ calls[2].out.some
    /\ Len(Tokens) >= 3 /\ Len(ExplicitArgs) >= 2
    /\ spawned.val.argv # ExplicitArgs \o SubSeq(Tokens, 2, Len(Tokens))

\* C9: resolve_command is called at most twice in one launch_app call, first
\* on the full command string; the second call comes only after the first
\* returned None and the string has two or more tokens, and is on the first
\* token; after a direct success nothing is split and the argument vector is
\* the record's explicit args
C9_FallbackSequencing ==
    /\ Len(calls) <= 2
    /\ Len(calls) >= 1 => calls[1].cmd = app.cmd
    /\ Len(calls) = 2 =>
          /\ ~calls[1].out.some
          /\ Len(Tokens) >= 2
          /\ calls[2].cmd = Tokens[1]
    /\ (Len(calls) >= 1 /\ calls[1].out.some) =>
          /\ Len(calls) = 1
          /\ final_args = app.args
          /\ spawned.some => spawned.val.argv = ExplicitArgs

C9_Witness ==
    /\ spawned.some
    /\ Len(calls) = 1 /\ calls[1].out.some
    /\ Len(Tokens) >= 2 /\ app.args.some

(***************************************************************************)
(* The allowlist predicate and the missing PATH                            *)
(***************************************************************************)
\* b is an ancestor of p by whole components, and not p itself
ProperAncestor(b, p) == starts_with(p, b) /\ p # b

\* C11: is_allowed_path(path) is true exactly when path canonicalizes and the
\* canonical form of some trusted directory is a proper ancestor of its
\* canonical form, by whole components: a path whose canonical form equals
\* that of a trusted entry is not allowed; a trusted directory that does not
\* canonicalize only drops out of the comparison
C11_ProperAncestorOnly ==
    (res.called /\ res.cmd \in ProbePaths) =>
        LET canon == canonicalize(fs, PathFrom(res.cmd))
        IN  res.allowed <=>
                /\ canon.ok
                /\ \E b \in CanonBins(fs, home_env) : ProperAncestor(b, canon.path)

\* the directory the path p lies in
ParentDir(p) == [abs |-> p.abs, comps |-> Parent(p.comps)]

\* C12: with PATH unset every relative command resolves to None, and an
\* absolute command resolves to what it resolves to under any value of PATH:
\* the canonical path when it is an executable file inside a trusted
\* directory, also a directory that group or others may write to
C12_MissingPath ==
    /\ (CalledRel /\ ~path_env.set) => res.out = None
    /\ CalledAbs =>
          /\ \A pv \in PathValues :
                resolve_command(fs, home_env, pv, res.cmd) = res.out
          /\ (/\ ExecutableFileAt(fs, PathFrom(res.cmd))
              /\ ResolvesInsideBins(fs, home_env, PathFrom(res.cmd)))
                => res.out = Some(canonicalize(fs, PathFrom(res.cmd)).path)

C12_Witness ==
    /\ CalledAbs
    /\ ~path_env.set
    /\ res.out.some
    /\ dir_world_writable(fs, ParentDir(res.out.val))

(***************************************************************************)
(* The menu loop                                                           *)
(***************************************************************************)
\* a launch is under way and has come to its pause
LaunchPaused == pc = "pause" /\ (spawned.some \/ refused)

\* C13: when the operating system cannot start the resolved program,
\* launch_app prints "Failed to launch command" and goes on to its pause: no
\* panic, no end of run_app, the app list as it was; a refusal goes on to the
\* pause in the same way; and from the pause control comes back to the menu
\* with the list and the config file as they were, unless the terminal itself
\* fails there
C13_LaunchFailureRecoverable ==
    [][ /\ (pc = "spawn" /\ pc' # "spawn") =>
              /\ pc' = "pause"
              /\ apps' = apps
              /\ ~spawned'.val.ok => msg' = FailedToLaunch
        /\ (pc = "refuse" /\ pc' # "refuse") =>
              /\ pc' = "pause"
              /\ msg' = Refusing
              /\ apps' = apps
        /\ (LaunchPaused /\ pc' # "pause") =>
              /\ apps' = apps /\ config_file' = config_file
              /\ pc' = "menu" \/ (pc' = "exited" /\ msg' = ApplicationError)
      ]_vars

C13_Witness ==
    /\ pc = "pause"
    /\ apps # <<>>
    /\ spawned.some /\ ~spawned.val.ok
    /\ msg = FailedToLaunch

DistinctKeys(list) ==
    \A i, j \in 1..Len(list) : i # j => list[i].key # list[j].key
NonEmptyKeys(list) == \A i \in 1..Len(list) : list[i].key # <<>>

\* the key an edit ends up with: the one typed, or the current one
EditedKey(list, sel, in) == IF in.key = <<>> THEN list[sel + 1].key ELSE in.key

\* C14 as stated: from a list with pairwise distinct keys, every add, edit or
\* delete leaves a list whose keys are pairwise distinct and non-empty
C14_AsStated ==
    [][(DistinctKeys(apps) /\ apps' # apps) =>
            (DistinctKeys(apps') /\ NonEmptyKeys(apps'))]_vars

\* C14: add, edit and delete keep the keys pairwise distinct, and keep them
\* non-empty when they were all non-empty before; an add whose key is the
\* key of an app, and an edit whose key is the key of another app, change
\* nothing; an edit may keep the key the app has
C14_KeysStayDistinct ==
    [][ /\ DistinctKeys(apps) => DistinctKeys(apps')
        /\ NonEmptyKeys(apps) => NonEmptyKeys(apps')
        /\ (pc = "add_prompt" /\ input'.op = "add"
                /\ key_exists(apps, input'.key)) => apps' = apps
        /\ (pc = "edit_prompt" /\ input'.op = "edit"
                /\ key_conflict(apps, selected, EditedKey(apps, selected, input')))
              => apps' = apps
      ]_vars

\* an edit that kept its key went through while another app was in the list
C14_Witness ==
    /\ pc = "restore"
    /\ input.op = "edit" /\ input.key = <<>> /\ input.name # <<>>
    /\ Len(apps) >= 2
    /\ DistinctKeys(apps) /\ NonEmptyKeys(apps)
    /\ config_file = FileWith(apps)

\* the cursor is on an app wherever the list is indexed with it
CursorInRange ==
    /\ selected \in Nat
    /\ (pc \in {"menu", "delete_prompt", "edit_prompt"} /\ apps # <<>>)
          => selected < Len(apps)

\* the last app was under the cursor and has just been deleted
DeletedLast ==
    /\ pc = "restore"
    /\ input.op = "delete" /\ IsYes(input.answer)
    /\ apps # <<>>
    /\ selected = Len(apps)

\* C15: whenever the list is not empty and is indexed with the cursor (the
\* marker drawn at the menu, Enter, delete, edit) the cursor is below the
\* number of apps; Up and Down keep it between 0 and the last app; and after
\* the last app was deleted the cursor is on the new last app when the menu
\* waits for the next event
C15_CursorBounds ==
    /\ []CursorInRange
    /\ [][(DeletedLast /\ pc' = "menu") => selected' = Len(apps') - 1]_vars

C15_Witness == DeletedLast

\* what the add handler turns down: a key in use, an empty name or key, an
\* empty command
AddRejected(list, in) ==
    key_exists(list, in.key) \/ in.name = <<>> \/ in.key = <<>> \/ in.cmd = <<>>

\* what the edit handler turns down: the key of another app, a field that is
\* empty after the defaults were filled in
EditRejected(list, sel, in) ==
    \/ key_conflict(list, sel, EditedKey(list, sel, in))
    \/ (in.name = <<>> /\ list[sel + 1].name = <<>>)
    \/ EditedKey(list, sel, in) = <<>>
    \/ (in.cmd = <<>> /\ full_cmd_str(list[sel + 1]) = <<>>)

\* the config file holds the list that is in memory
FileMatches(file, list) ==
    file = FileWith(list) \/ (file = Absent /\ list = <<>>)

\* C16: a rejected add, a rejected edit and a delete not answered with y or Y
\* leave the app list and the config file as they were; an accepted add, edit
\* or delete writes the new list to the config file or ends run_app; and
\* whenever the menu waits for an event the file holds the list in memory
C16_RejectedChangeNothing ==
    /\ [](pc = "menu" => FileMatches(config_file, apps))
    /\ [][ /\ (pc = "add_prompt" /\ input'.op = "add") =>
                IF AddRejected(apps, input')
                THEN apps' = apps /\ config_file' = config_file
                ELSE /\ apps' # apps
                     /\ config_file' = FileWith(apps') \/ pc' = "exited"
           /\ (pc = "edit_prompt" /\ input'.op = "edit") =>
                IF EditRejected(apps, selected, input')
                THEN apps' = apps /\ config_file' = config_file
                ELSE config_file' = FileWith(apps')
                        \/ pc' \in {"exited", "panicked"}
           /\ (pc = "delete_prompt" /\ input'.op = "delete") =>
                IF ~IsYes(input'.answer)
                THEN apps' = apps /\ config_file' = config_file
                ELSE /\ Len(apps') = Len(apps) - 1
                     /\ config_file' = FileWith(apps') \/ pc' = "exited"
           /\ apps' # apps =>
                (config_file' = FileWith(apps') \/ pc' = "exited")
         ]_vars

\* an add was given no command: nothing is said and nothing is changed
C16_Witness ==
    /\ pc = "restore"
    /\ input.op = "add" /\ input.name # <<>> /\ input.key # <<>>
    /\ input.cmd = <<>>
    /\ apps # <<>>
    /\ config_file = FileWith(apps)

\* C17: whenever the menu loop waits for a key the terminal is in raw mode on
\* the alternate screen; a program is spawned, and the add, edit and delete
\* prompts read a line, only with raw mode off and the alternate screen left;
\* and once run_app is over (Ctrl+q, an I/O error, a panic) raw mode is off
\* and the alternate screen left
C17_TerminalDiscipline ==
    /\ pc = "menu" => (raw_mode /\ alt_screen)
    /\ pc \in {"spawn", "add_prompt", "edit_prompt", "delete_prompt"}
          => (~raw_mode /\ ~alt_screen)
    /\ pc \in {"exited", "panicked"} => (~raw_mode /\ ~alt_screen)

\* run_app ended on an error after an add was typed in
C17_Witness ==
    /\ pc = "exited"
    /\ msg = ApplicationError
    /\ input.op = "add"
    /\ ~raw_mode /\ ~alt_screen

============================================================================
